---------------------------- MODULE Spec2Model ----------------------------
(***************************************************************************)
(* Model of three pieces of the safe_network repository:                   *)
(*   - sn_networking/src/bootstrap.rs : ContinuousBootstrap and the        *)
(*     SwarmDriver code that drives it (specification Spec);               *)
(*   - sn_transfers/src/cashnotes/signed_spend.rs : SignedSpend            *)
(*     (specification SpecSpend);                                          *)
(*   - sn_protocol/src/storage/header.rs : RecordHeader / RecordKind       *)
(*     (specification SpecCodec).                                          *)
(* Durations and instants are whole seconds.                               *)
(***************************************************************************)
EXTENDS Integers, Sequences, FiniteSets, TLC

(***************************************************************************)
(* Program constants of bootstrap.rs                                       *)
(***************************************************************************)
BOOTSTRAP_INTERVAL == 5

BOOTSTRAP_CONNECTED_PEERS_STEP == 50

LAST_PEER_ADDED_TIME_LIMIT == 180

NO_PEER_ADDED_SLOWDOWN_INTERVAL == 300

\* Duration::from_secs(86400) of the stop branch of should_we_bootstrap
STOPPED_INTERVAL == 86400

(***************************************************************************)
(* Bounds of the model                                                     *)
(***************************************************************************)
\* the clock stops advancing here
MaxNow == 273

\* kademlia accepts no further query once this many are in flight
MaxInFlight == 3

\* the count of `true` returns of notify_new_peer saturates here
MaxTrueReturns == 2

\* amounts by which the clock advances between two events
ClockSteps == {90, 91}

\* values of swarm.connected_peers().count() seen by a tick
PeerCounts == {0, 1, 3, 40, 120, 3000, 3050}

VARIABLES
    \* ContinuousBootstrap
    is_ongoing,
    initial_bootstrap_done,
    stop_bootstrapping,
    last_peer_added_instant,
    \* environment of the controller
    now,                 \* Instant::now()
    bootstrap_interval,  \* period of the timer owned by the event loop
    in_flight,           \* kademlia bootstrap queries dispatched, not completed
    \* history
    stop_called,         \* stop_bootstrapping() has been called
    notify_calls,        \* notify_new_peer() has been called (0, 1, 2 = many)
    notify_trues,        \* number of `true` returns of notify_new_peer
    awaiting,            \* initiated() was called and completed() not since
    last,                \* the last operation, its inputs and its results
    \* SignedSpend (SpecSpend)
    spend_a,
    spend_b,
    spent_tx_hash,
    spend_out,
    \* RecordHeader (SpecCodec)
    kind_in,
    payload_in,
    raw,
    codec_out

bootstrap_vars == <<is_ongoing, initial_bootstrap_done, stop_bootstrapping,
                    last_peer_added_instant, now, bootstrap_interval, in_flight,
                    stop_called, notify_calls, notify_trues, awaiting, last>>

spend_vars == <<spend_a, spend_b, spent_tx_hash, spend_out>>

codec_vars == <<kind_in, payload_in, raw, codec_out>>

vars == <<bootstrap_vars, spend_vars, codec_vars>>

Max(a, b) == IF a >= b THEN a ELSE b

Min(a, b) == IF a <= b THEN a ELSE b

\* Option<T>: None is the empty set, Some(x) the singleton
None == {}

Some(x) == {x}

Unwrap(o) == CHOOSE x \in o : TRUE

(***************************************************************************)
(* ContinuousBootstrap                                                     *)
(***************************************************************************)
\* fn initiated(&mut self): the new value of is_ongoing
initiated == TRUE

\* completed that leaves the flag set
completed_leaves_ongoing == TRUE

\* fn completed(&mut self): the new value of is_ongoing
completed == FALSE

\* notify_new_peer that forgets to set the latch
notify_new_peer_no_latch(done) ==
    [initial_bootstrap_done |-> done, ret |-> ~done]

\* fn notify_new_peer(&mut self) -> bool, on the field initial_bootstrap_done
notify_new_peer(done) ==
    IF ~done THEN [initial_bootstrap_done |-> TRUE, ret |-> TRUE]
             ELSE [initial_bootstrap_done |-> done, ret |-> FALSE]

\* should_bootstrap that forgets the query in flight
should_bootstrap_ignoring_ongoing(ongoing, peers_in_rt) == peers_in_rt >= 1

\* let should_bootstrap = !self.is_ongoing && peers_in_rt >= 1;
should_bootstrap(ongoing, peers_in_rt) == ~ongoing /\ peers_in_rt >= 1

\* the staleness test with >= for >
slow_down_inclusive(elapsed, peers_in_rt) ==
    elapsed >= LAST_PEER_ADDED_TIME_LIMIT /\ peers_in_rt # 0

\* self.last_peer_added_instant.elapsed() > LAST_PEER_ADDED_TIME_LIMIT && peers_in_rt != 0
slow_down(elapsed, peers_in_rt) ==
    elapsed > LAST_PEER_ADDED_TIME_LIMIT /\ peers_in_rt # 0

\* BOOTSTRAP_INTERVAL * max(1, peers_in_rt / BOOTSTRAP_CONNECTED_PEERS_STEP)
\* (peers_in_rt is a u32, the product a Duration: neither overflows)
step_interval(peers_in_rt) ==
    BOOTSTRAP_INTERVAL * Max(1, peers_in_rt \div BOOTSTRAP_CONNECTED_PEERS_STEP)

\* pacing that returns the step interval whatever the current interval is
paced_interval_unconditional(peers_in_rt, current_interval) ==
    Some(step_interval(peers_in_rt))

\* the pacing test with >= for >
paced_interval_inclusive(peers_in_rt, current_interval) ==
    IF step_interval(peers_in_rt) >= current_interval
    THEN Some(step_interval(peers_in_rt))
    ELSE None

\* if new_interval > current_interval { Some(interval) } else { None }
paced_interval(peers_in_rt, current_interval) ==
    IF step_interval(peers_in_rt) > current_interval
    THEN Some(step_interval(peers_in_rt))
    ELSE None

\* the branch taken when the stop flag is set
stopped_decision == <<FALSE, Some(STOPPED_INTERVAL)>>

\* should_we_bootstrap that tests the stop flag after the staleness test
should_we_bootstrap_stop_late(stop, ongoing, elapsed, peers_in_rt, current_interval) ==
    IF slow_down(elapsed, peers_in_rt)
    THEN <<should_bootstrap(ongoing, peers_in_rt),
           Some(NO_PEER_ADDED_SLOWDOWN_INTERVAL)>>
    ELSE IF stop
         THEN stopped_decision
         ELSE <<should_bootstrap(ongoing, peers_in_rt),
                paced_interval(peers_in_rt, current_interval)>>

\* async fn should_we_bootstrap(&mut self, peers_in_rt, current_interval)
\*   -> (bool, Option<Interval>); elapsed is last_peer_added_instant.elapsed()
should_we_bootstrap(stop, ongoing, elapsed, peers_in_rt, current_interval) ==
    IF stop
    THEN stopped_decision
    ELSE IF slow_down(elapsed, peers_in_rt)
         THEN <<should_bootstrap(ongoing, peers_in_rt),
                Some(NO_PEER_ADDED_SLOWDOWN_INTERVAL)>>
         ELSE <<should_bootstrap(ongoing, peers_in_rt),
                paced_interval(peers_in_rt, current_interval)>>

\* initiate_bootstrap that calls initiated() on Err too
initiate_bootstrap_always(ongoing, ok) == initiated

\* fn initiate_bootstrap(&mut self): kademlia.bootstrap() answers Ok (ok) or
\* Err; the new value of is_ongoing
initiate_bootstrap(ongoing, ok) == IF ok THEN initiated ELSE ongoing

\* the event loop swaps its timer for the one the tick returned
swap_interval(current_interval, new_interval) ==
    IF new_interval = None THEN current_interval ELSE Unwrap(new_interval)

NoOp == [op |-> "new", peers |-> 0, interval |-> 0, elapsed |-> 0,
         ongoing |-> FALSE, stopped |-> FALSE, awaiting |-> FALSE,
         in_flight |-> 0,
         should |-> FALSE, new_interval |-> None, ret |-> FALSE,
         dispatched |-> FALSE]

\* ContinuousBootstrap::new() and the event loop's first timer
InitBootstrap ==
    /\ is_ongoing = FALSE
    /\ initial_bootstrap_done = FALSE
    /\ stop_bootstrapping = FALSE
    /\ last_peer_added_instant = 0
    /\ now = 0
    /\ bootstrap_interval = BOOTSTRAP_INTERVAL
    /\ in_flight = 0
    /\ stop_called = FALSE
    /\ notify_calls = 0
    /\ notify_trues = 0
    /\ awaiting = FALSE
    /\ last = NoOp

IdleSpend ==
    /\ spend_a = <<>>
    /\ spend_b = <<>>
    /\ spent_tx_hash = 0
    /\ spend_out = <<>>

IdleCodec ==
    /\ kind_in = "Chunk"
    /\ payload_in = 0
    /\ raw = <<>>
    /\ codec_out = <<>>

\* time passes
AdvanceClock ==
    /\ \E d \in ClockSteps :
          /\ now + d <= MaxNow
          /\ now' = now + d
    /\ last' = [NoOp EXCEPT !.op = "advance"]
    /\ UNCHANGED <<is_ongoing, initial_bootstrap_done, stop_bootstrapping,
                   last_peer_added_instant, bootstrap_interval, in_flight,
                   stop_called, notify_calls, notify_trues, awaiting>>
    /\ UNCHANGED <<spend_vars, codec_vars>>

\* SwarmDriver::run_bootstrap_continuously on a tick of the timer, and the
\* event loop's swap of the timer
TickWith(peers_in_rt, ok) ==
        LET elapsed == now - last_peer_added_instant
            r == should_we_bootstrap(stop_bootstrapping, is_ongoing, elapsed,
                                     peers_in_rt, bootstrap_interval)
            accepted == r[1] /\ ok /\ in_flight < MaxInFlight
        IN  /\ is_ongoing' = IF r[1] THEN initiate_bootstrap(is_ongoing, accepted)
                                     ELSE is_ongoing
            /\ in_flight' = IF accepted THEN in_flight + 1 ELSE in_flight
            /\ bootstrap_interval' = swap_interval(bootstrap_interval, r[2])
            /\ awaiting' = (accepted \/ awaiting)
            /\ last' = [op |-> "tick", peers |-> peers_in_rt,
                        interval |-> bootstrap_interval, elapsed |-> elapsed,
                        ongoing |-> is_ongoing, stopped |-> stop_called,
                        awaiting |-> awaiting, in_flight |-> in_flight,
                        should |-> r[1], new_interval |-> r[2], ret |-> FALSE,
                        dispatched |-> accepted]
            /\ UNCHANGED <<initial_bootstrap_done, stop_bootstrapping,
                           last_peer_added_instant, now, stop_called,
                           notify_calls, notify_trues>>
            /\ UNCHANGED <<spend_vars, codec_vars>>

Tick == \E peers_in_rt \in PeerCounts, ok \in BOOLEAN : TickWith(peers_in_rt, ok)

\* a tick while the routing table is not empty
TickNonEmpty ==
    \E peers_in_rt \in PeerCounts \ {0}, ok \in BOOLEAN :
        TickWith(peers_in_rt, ok)

\* a peer was added to the routing table: notify_new_peer(), and the initial
\* bootstrap when it returns true
PeerAdded ==
    \E ok \in BOOLEAN :
        LET n == notify_new_peer(initial_bootstrap_done)
            accepted == n.ret /\ ok /\ in_flight < MaxInFlight
        IN  /\ last_peer_added_instant' = now
            /\ initial_bootstrap_done' = n.initial_bootstrap_done
            /\ is_ongoing' = IF n.ret THEN initiate_bootstrap(is_ongoing, accepted)
                                      ELSE is_ongoing
            /\ in_flight' = IF accepted THEN in_flight + 1 ELSE in_flight
            /\ awaiting' = (accepted \/ awaiting)
            /\ notify_calls' = Min(notify_calls + 1, 2)
            /\ notify_trues' = IF n.ret THEN Min(notify_trues + 1, MaxTrueReturns)
                                        ELSE notify_trues
            /\ last' = [NoOp EXCEPT !.op = "notify_new_peer",
                                    !.ongoing = is_ongoing,
                                    !.stopped = stop_called,
                                    !.awaiting = awaiting,
                                    !.in_flight = in_flight,
                                    !.ret = n.ret,
                                    !.dispatched = accepted]
            /\ UNCHANGED <<stop_bootstrapping, now, bootstrap_interval,
                           stop_called>>
            /\ UNCHANGED <<spend_vars, codec_vars>>

\* a dispatched bootstrap query finished: completed()
QueryCompleted ==
    /\ in_flight > 0
    /\ in_flight' = in_flight - 1
    /\ is_ongoing' = completed
    /\ awaiting' = FALSE
    /\ last' = [NoOp EXCEPT !.op = "completed", !.ongoing = is_ongoing,
                            !.stopped = stop_called, !.awaiting = awaiting,
                            !.in_flight = in_flight]
    /\ UNCHANGED <<initial_bootstrap_done, stop_bootstrapping,
                   last_peer_added_instant, now, bootstrap_interval,
                   stop_called, notify_calls, notify_trues>>
    /\ UNCHANGED <<spend_vars, codec_vars>>

\* fn stop_bootstrapping(&mut self)
StopBootstrapping ==
    /\ stop_bootstrapping' = TRUE
    /\ stop_called' = TRUE
    /\ last' = [NoOp EXCEPT !.op = "stop", !.ongoing = is_ongoing,
                            !.stopped = stop_called, !.awaiting = awaiting,
                            !.in_flight = in_flight]
    /\ UNCHANGED <<is_ongoing, initial_bootstrap_done, last_peer_added_instant,
                   now, bootstrap_interval, in_flight, notify_calls,
                   notify_trues, awaiting>>
    /\ UNCHANGED <<spend_vars, codec_vars>>

(***************************************************************************)
(* SignedSpend (signed_spend.rs)                                           *)
(***************************************************************************)
\* unique_pubkey values; their Ord is the order of the integers
PubKeys == {1, 2}

Transactions == {1, 2}

Reasons == {0}

Tokens == {1}

\* Transaction::hash(): a hash without collisions on Transactions
TxHash(tx) == 40 + 3 * tx

\* the Hash values a caller may pass to verify: the hash of every transaction
\* and one that is the hash of none
Hashes == {TxHash(tx) : tx \in Transactions} \cup {0}

Spends == [unique_pubkey : PubKeys, spent_tx : Transactions, reason : Reasons,
           token : Tokens, cashnote_creation_tx : Transactions \ {2}]

\* Spend::to_bytes: the fields are of fixed width, so the concatenation is
\* the tuple of the fields
Spend_to_bytes(spend) ==
    <<spend.unique_pubkey, TxHash(spend.spent_tx), spend.reason, spend.token,
      TxHash(spend.cashnote_creation_tx)>>

\* the signature of the derived secret key of `key` over `msg` (BLS
\* signatures are deterministic)
Sign(key, msg) == [key |-> key, msg |-> msg]

\* UniquePubkey::verify(&sig, msg)
PubKey_verify(key, sig, msg) == sig.key = key /\ sig.msg = msg

Signature_to_bytes(sig) == <<sig.key>> \o sig.msg

\* every signature some key can have made over some spend
Signatures == {Sign(k, Spend_to_bytes(sp)) : k \in PubKeys, sp \in Spends}

SignedSpends == [spend : Spends, derived_key_sig : Signatures]

\* Ord of integers
Int_cmp(a, b) == IF a < b THEN "Less" ELSE IF a = b THEN "Equal" ELSE "Greater"

\* lexicographic Ord of byte strings
RECURSIVE Bytes_cmp(_, _)
Bytes_cmp(a, b) ==
    IF a = <<>> /\ b = <<>> THEN "Equal"
    ELSE IF a = <<>> THEN "Less"
    ELSE IF b = <<>> THEN "Greater"
    ELSE IF Int_cmp(Head(a), Head(b)) # "Equal" THEN Int_cmp(Head(a), Head(b))
    ELSE Bytes_cmp(Tail(a), Tail(b))

\* Ord of Signature: a total order in which only equal signatures are Equal
Signature_cmp(a, b) == Bytes_cmp(Signature_to_bytes(a), Signature_to_bytes(b))

\* SignedSpend::spent_tx_hash
SignedSpend_spent_tx_hash(ss) == TxHash(ss.spend.spent_tx)

\* SignedSpend::to_bytes, the input of Hash for SignedSpend
SignedSpend_to_bytes(ss) ==
    Spend_to_bytes(ss.spend) \o Signature_to_bytes(ss.derived_key_sig)

\* verify that tests the signature alone
verify_without_hash(ss, hash) ==
    IF PubKey_verify(ss.spend.unique_pubkey, ss.derived_key_sig,
                     Spend_to_bytes(ss.spend))
    THEN <<"Ok">>
    ELSE <<"InvalidSpendSignature", ss.spend.unique_pubkey>>

\* verify that tests the signature before the hash
verify_signature_first(ss, hash) ==
    IF ~PubKey_verify(ss.spend.unique_pubkey, ss.derived_key_sig,
                      Spend_to_bytes(ss.spend))
    THEN <<"InvalidSpendSignature", ss.spend.unique_pubkey>>
    ELSE IF hash # SignedSpend_spent_tx_hash(ss)
         THEN <<"InvalidTransactionHash">>
         ELSE <<"Ok">>

\* SignedSpend::verify(&self, spent_tx_hash) -> Result<()>
verify(ss, hash) ==
    IF hash # SignedSpend_spent_tx_hash(ss)
    THEN <<"InvalidTransactionHash">>
    ELSE IF PubKey_verify(ss.spend.unique_pubkey, ss.derived_key_sig,
                          Spend_to_bytes(ss.spend))
         THEN <<"Ok">>
         ELSE <<"InvalidSpendSignature", ss.spend.unique_pubkey>>

\* #[derive(PartialEq)] for Spend: every field
Spend_eq(a, b) ==
    /\ a.unique_pubkey = b.unique_pubkey
    /\ a.spent_tx = b.spent_tx
    /\ a.reason = b.reason
    /\ a.token = b.token
    /\ a.cashnote_creation_tx = b.cashnote_creation_tx

\* impl PartialEq for SignedSpend
SignedSpend_eq(a, b) ==
    Spend_eq(a.spend, b.spend) /\ a.derived_key_sig = b.derived_key_sig

\* an Ord for Spend that goes on to the transaction when the keys are equal
Spend_cmp_by_fields(a, b) ==
    IF Int_cmp(a.unique_pubkey, b.unique_pubkey) # "Equal"
    THEN Int_cmp(a.unique_pubkey, b.unique_pubkey)
    ELSE Int_cmp(a.spent_tx, b.spent_tx)

\* impl Ord for Spend
Spend_cmp(a, b) == Int_cmp(a.unique_pubkey, b.unique_pubkey)

\* #[derive(PartialOrd, Ord)] for SignedSpend: the fields in declaration
\* order, spend and then derived_key_sig
SignedSpend_cmp(a, b) ==
    IF Spend_cmp(a.spend, b.spend) # "Equal"
    THEN Spend_cmp(a.spend, b.spend)
    ELSE Signature_cmp(a.derived_key_sig, b.derived_key_sig)

\* two SignedSpends and a hash to verify against
InitSpend ==
    /\ spend_a \in SignedSpends
    /\ spend_b \in SignedSpends
    /\ spent_tx_hash \in Hashes
    /\ spend_out = <<>>

\* spend_a.verify(spent_tx_hash)
Verify ==
    /\ spend_out' = [op |-> "verify", result |-> verify(spend_a, spent_tx_hash)]
    /\ UNCHANGED <<spend_a, spend_b, spent_tx_hash>>
    /\ UNCHANGED <<bootstrap_vars, codec_vars>>

\* spend_a and spend_b compared: ==, the Hash input, Ord of the spends and of
\* the signed spends
Compare ==
    /\ spend_out' = [op |-> "compare",
                     eq |-> SignedSpend_eq(spend_a, spend_b),
                     same_hash_input |->
                         SignedSpend_to_bytes(spend_a) = SignedSpend_to_bytes(spend_b),
                     spend_cmp |-> Spend_cmp(spend_a.spend, spend_b.spend),
                     cmp |-> SignedSpend_cmp(spend_a, spend_b)]
    /\ UNCHANGED <<spend_a, spend_b, spent_tx_hash>>
    /\ UNCHANGED <<bootstrap_vars, codec_vars>>

(***************************************************************************)
(* RecordHeader and RecordKind (header.rs)                                 *)
(***************************************************************************)
\* RecordHeader::SIZE
RecordHeader_SIZE == 2

\* longest raw value drawn as an input
MaxRawLen == 3

RecordKinds == {"Chunk", "ChunkWithPayment", "Spend", "Register",
                "RegisterWithPayment"}

\* MessagePack markers: an array of one element, and an 8, 16 or 32 bit
\* unsigned integer
FixArray1 == 145

MarkerU8 == 204

MarkerU16 == 205

MarkerU32 == 206

\* the bytes raw values are drawn from: ordinals of kinds, ordinals of no
\* kind, the markers of an array of one element and of a u8
RawBytes == {0, 1, 4, 5, FixArray1, MarkerU8}

RECURSIVE SeqsUpTo(_, _)
SeqsUpTo(S, n) ==
    IF n = 0 THEN {<<>>}
    ELSE LET shorter == SeqsUpTo(S, n - 1)
         IN  shorter \cup {Append(q, b) : q \in shorter, b \in S}

\* serializer.serialize_u32(n) of rmp_serde: the shortest MessagePack
\* encoding of the unsigned integer
serialize_u32(n) ==
    IF n < 128 THEN <<n>>
    ELSE IF n < 256 THEN <<MarkerU8, n>>
    ELSE IF n < 65536 THEN <<MarkerU16, n \div 256, n % 256>>
    ELSE <<MarkerU32, n \div 16777216, (n \div 65536) % 256,
           (n \div 256) % 256, n % 256>>

\* u32::deserialize(deserializer) of rmp_serde on the front of bytes: the
\* integer, or "Err" (bytes holds a positive fixint or an unsigned integer
\* marker and its bytes; the rest of bytes is left unread)
deserialize_u32(bytes) ==
    IF bytes = <<>> THEN <<"Err">>
    ELSE IF bytes[1] < 128 THEN <<"Ok", bytes[1]>>
    ELSE IF bytes[1] = MarkerU8 /\ Len(bytes) >= 2 THEN <<"Ok", bytes[2]>>
    ELSE IF bytes[1] = MarkerU16 /\ Len(bytes) >= 3
         THEN <<"Ok", 256 * bytes[2] + bytes[3]>>
    ELSE IF bytes[1] = MarkerU32 /\ Len(bytes) >= 5
         THEN <<"Ok", 16777216 * bytes[2] + 65536 * bytes[3]
                      + 256 * bytes[4] + bytes[5]>>
    ELSE <<"Err">>

\* Serialize for RecordKind with the ordinals of the declaration order
RecordKind_serialize_declared(kind) ==
    CASE kind = "Chunk" -> serialize_u32(0)
      [] kind = "ChunkWithPayment" -> serialize_u32(1)
      [] kind = "Spend" -> serialize_u32(2)
      [] kind = "Register" -> serialize_u32(3)
      [] kind = "RegisterWithPayment" -> serialize_u32(4)

\* impl Serialize for RecordKind
RecordKind_serialize(kind) ==
    CASE kind = "ChunkWithPayment" -> serialize_u32(0)
      [] kind = "Chunk" -> serialize_u32(1)
      [] kind = "Spend" -> serialize_u32(2)
      [] kind = "Register" -> serialize_u32(3)
      [] kind = "RegisterWithPayment" -> serialize_u32(4)

\* Deserialize for RecordKind that takes every other integer for the last kind
RecordKind_deserialize_lenient(bytes) ==
    LET num == deserialize_u32(bytes)
    IN  IF num[1] = "Err" THEN <<"Err">>
        ELSE CASE num[2] = 0 -> <<"Ok", "ChunkWithPayment">>
               [] num[2] = 1 -> <<"Ok", "Chunk">>
               [] num[2] = 2 -> <<"Ok", "Spend">>
               [] num[2] = 3 -> <<"Ok", "Register">>
               [] OTHER -> <<"Ok", "RegisterWithPayment">>

\* impl Deserialize for RecordKind
RecordKind_deserialize(bytes) ==
    LET num == deserialize_u32(bytes)
    IN  IF num[1] = "Err" THEN <<"Err">>
        ELSE CASE num[2] = 0 -> <<"Ok", "ChunkWithPayment">>
               [] num[2] = 1 -> <<"Ok", "Chunk">>
               [] num[2] = 2 -> <<"Ok", "Spend">>
               [] num[2] = 3 -> <<"Ok", "Register">>
               [] num[2] = 4 -> <<"Ok", "RegisterWithPayment">>
               [] OTHER -> <<"Err">>

\* RecordHeader::try_serialize: rmp_serde::to_vec writes the struct as the
\* array of its one field
try_serialize(kind) == <<FixArray1>> \o RecordKind_serialize(kind)

\* RecordHeader::try_deserialize: rmp_serde::from_slice reads an array of
\* one element and leaves what follows it unread; every failure is mapped to
\* Error::RecordHeaderParsingFailed
try_deserialize(bytes) ==
    IF bytes = <<>> \/ bytes[1] # FixArray1
    THEN <<"Err", "RecordHeaderParsingFailed">>
    ELSE LET kind == RecordKind_deserialize(Tail(bytes))
         IN  IF kind[1] = "Err"
             THEN <<"Err", "RecordHeaderParsingFailed">>
             ELSE kind

\* from_record that asks for RecordHeader::SIZE bytes only
from_record_nominal_size(value) ==
    IF Len(value) < RecordHeader_SIZE
    THEN <<"Err", "RecordHeaderParsingFailed">>
    ELSE try_deserialize(SubSeq(value, 1, Min(Len(value), RecordHeader_SIZE + 1)))

\* RecordHeader::from_record(&record), on record.value
from_record(value) ==
    IF Len(value) < RecordHeader_SIZE + 1
    THEN <<"Err", "RecordHeaderParsingFailed">>
    ELSE try_deserialize(SubSeq(value, 1, RecordHeader_SIZE + 1))

\* RecordHeader::is_record_of_type_chunk(&record)
is_record_of_type_chunk(value) ==
    LET header == from_record(value)
    IN  IF header[1] = "Err" THEN header ELSE <<"Ok", header[2] = "Chunk">>

\* try_deserialize_record that skips RecordHeader::SIZE + 1 bytes, as
\* from_record slices them
try_deserialize_record_skipping_3(value) ==
    IF Len(value) > RecordHeader_SIZE
    THEN LET data == deserialize_u32(SubSeq(value, RecordHeader_SIZE + 2,
                                            Len(value)))
         IN  IF data[1] = "Err" THEN <<"Err", "RecordParsingFailed">>
                                ELSE data
    ELSE <<"Err", "RecordParsingFailed">>

\* try_deserialize_record::<u32>(&record), on record.value: the header bytes
\* are skipped unread
try_deserialize_record(value) ==
    IF Len(value) > RecordHeader_SIZE
    THEN LET data == deserialize_u32(SubSeq(value, RecordHeader_SIZE + 1,
                                            Len(value)))
         IN  IF data[1] = "Err" THEN <<"Err", "RecordParsingFailed">>
                                ELSE data
    ELSE <<"Err", "RecordParsingFailed">>

\* try_serialize_record(&data, record_kind) for data: u32 (rmp_serde::to_vec
\* of a u32 does not fail)
try_serialize_record(data, record_kind) ==
    try_serialize(record_kind) \o serialize_u32(data)

\* the u32 payloads: of 1, 2 and 3 encoded bytes
Payloads == {1, 200, 300}

\* a kind and a payload to encode and a raw value to decode
InitCodec ==
    /\ kind_in \in RecordKinds
    /\ payload_in \in Payloads
    /\ raw \in SeqsUpTo(RawBytes, MaxRawLen)
    /\ codec_out = <<>>

\* whether the raw value is the header / the record that was encoded
WasEncoded == codec_out # <<>> /\ codec_out.encoded

WasRecord == codec_out # <<>> /\ codec_out.record

\* RecordHeader { kind: kind_in }.try_serialize(); the bytes become the raw
\* value
EncodeHeader ==
    /\ raw' = try_serialize(kind_in)
    /\ codec_out' = [op |-> "try_serialize", encoded |-> TRUE,
                     record |-> FALSE,
                     result |-> <<"Ok", try_serialize(kind_in)>>]
    /\ UNCHANGED <<kind_in, payload_in>>
    /\ UNCHANGED <<bootstrap_vars, spend_vars>>

\* RecordHeader::try_deserialize(&raw)
DecodeHeader ==
    /\ codec_out' = [op |-> "try_deserialize",
                     encoded |-> WasEncoded, record |-> WasRecord,
                     result |-> try_deserialize(raw)]
    /\ UNCHANGED <<kind_in, payload_in, raw>>
    /\ UNCHANGED <<bootstrap_vars, spend_vars>>

\* try_serialize_record(&payload_in, kind_in); the bytes become the raw value
EncodeRecord ==
    /\ raw' = try_serialize_record(payload_in, kind_in)
    /\ codec_out' = [op |-> "try_serialize_record", encoded |-> FALSE,
                     record |-> TRUE,
                     result |-> <<"Ok", try_serialize_record(payload_in, kind_in)>>]
    /\ UNCHANGED <<kind_in, payload_in>>
    /\ UNCHANGED <<bootstrap_vars, spend_vars>>

\* RecordHeader::from_record(&record) with record.value = raw
HeaderOfRecord ==
    /\ codec_out' = [op |-> "from_record",
                     encoded |-> WasEncoded, record |-> WasRecord,
                     result |-> from_record(raw)]
    /\ UNCHANGED <<kind_in, payload_in, raw>>
    /\ UNCHANGED <<bootstrap_vars, spend_vars>>

\* RecordHeader::is_record_of_type_chunk(&record) with record.value = raw
IsChunk ==
    /\ codec_out' = [op |-> "is_record_of_type_chunk",
                     encoded |-> WasEncoded, record |-> WasRecord,
                     result |-> is_record_of_type_chunk(raw)]
    /\ UNCHANGED <<kind_in, payload_in, raw>>
    /\ UNCHANGED <<bootstrap_vars, spend_vars>>

\* try_deserialize_record::<u32>(&record) with record.value = raw
DecodeRecord ==
    /\ codec_out' = [op |-> "try_deserialize_record",
                     encoded |-> WasEncoded, record |-> WasRecord,
                     result |-> try_deserialize_record(raw)]
    /\ UNCHANGED <<kind_in, payload_in, raw>>
    /\ UNCHANGED <<bootstrap_vars, spend_vars>>

Init == InitBootstrap /\ IdleSpend /\ IdleCodec

Next ==
    \/ AdvanceClock
    \/ Tick
    \/ PeerAdded
    \/ QueryCompleted
    \/ StopBootstrapping

Spec == Init /\ [][Next]_vars

\* the controller is never stopped and the routing table is never empty at a
\* tick; the timer keeps ticking and kademlia does not refuse a query for
\* ever, and every query in flight is completed in the end
NextLive ==
    \/ AdvanceClock
    \/ TickNonEmpty
    \/ PeerAdded
    \/ QueryCompleted

SpecLive ==
    /\ Init
    /\ [][NextLive]_vars
    /\ WF_vars(TickNonEmpty /\ last'.dispatched)
    /\ WF_vars(QueryCompleted)

InitSpendSpec == InitBootstrap /\ InitSpend /\ IdleCodec

NextSpend ==
    \/ Verify
    \/ Compare

SpecSpend == InitSpendSpec /\ [][NextSpend]_vars

InitCodecSpec == InitBootstrap /\ IdleSpend /\ InitCodec

NextCodec ==
    \/ EncodeHeader
    \/ DecodeHeader
    \/ EncodeRecord
    \/ HeaderOfRecord
    \/ IsChunk
    \/ DecodeRecord

SpecCodec == InitCodecSpec /\ [][NextCodec]_vars

(***************************************************************************)
(* Properties of ContinuousBootstrap (specification Spec)                  *)
(***************************************************************************)
\* C1: at most one bootstrap query is outstanding: a query is never
\* dispatched while a previously dispatched one has not completed.
C1_NoOverlappingDispatch == last.dispatched => last.in_flight = 0

\* C2: stop() is a one-way latch: the flag never resets once stop() was
\* called, and no query is dispatched after stop() by any path.
C2_StopIsFinal ==
    /\ stop_called => stop_bootstrapping
    /\ last.dispatched => ~last.stopped

\* C3: after stop(), every decision is (false, Some(86400 s)), whatever the
\* peers, the current interval, is_ongoing and last_peer_added_instant.
C3_StoppedDecision ==
    (last.op = "tick" /\ last.stopped) =>
        /\ last.should = FALSE
        /\ last.new_interval = {86400}
        /\ ~last.dispatched

C3_Witness ==
    /\ last.op = "tick"
    /\ last.stopped
    /\ last.peers >= 1
    /\ ~last.ongoing
    /\ last.elapsed > 180
    /\ last.interval = 5

\* C4: notify_new_peer() returns true on its first call and false on every
\* later call, so it has returned true exactly once if it was called at all.
C4_NotifyTrueOnce ==
    /\ last.op = "notify_new_peer" => (last.ret <=> notify_calls = 1)
    /\ notify_trues = IF notify_calls = 0 THEN 0 ELSE 1

C4_Witness ==
    /\ last.op = "notify_new_peer"
    /\ notify_calls = 2
    /\ ~last.ret
    /\ stop_called
    /\ ~is_ongoing
    /\ now - last_peer_added_instant = 0
    /\ now > 180

\* C5: when not stopped, the decision is !is_ongoing && peers >= 1 in both
\* branches: false with no peers, false between initiated() and the next
\* completed(), true again with a peer once completed() was called.
C5_BaseDecision ==
    (last.op = "tick" /\ ~last.stopped) =>
        /\ last.should <=> (~last.ongoing /\ last.peers >= 1)
        /\ last.peers = 0 => ~last.should
        /\ last.awaiting => ~last.should
        /\ (~last.awaiting /\ last.peers >= 1) => last.should

C5_Witness ==
    /\ last.op = "tick"
    /\ ~last.stopped
    /\ last.peers = 1
    /\ last.interval = 5
    /\ last.should
    /\ last.new_interval = {}
    /\ initial_bootstrap_done
    /\ last.in_flight = 0

\* the candidate interval of the step computation, as the claims state it
ClaimCandidate(peers) ==
    5 * (IF peers \div 50 >= 1 THEN peers \div 50 ELSE 1)

ClaimStale(elapsed, peers) == elapsed > 180 /\ peers # 0

\* C6: when not stopped, more than 180 s since the last peer and a non-empty
\* table give Some(300 s) whatever the current interval; otherwise the step
\* computation decides.
C6_StalenessOverride ==
    (last.op = "tick" /\ ~last.stopped) =>
        IF ClaimStale(last.elapsed, last.peers)
        THEN last.new_interval = {300}
        ELSE last.new_interval \in {{}, {ClaimCandidate(last.peers)}}

C6_Witness ==
    /\ last.op = "tick"
    /\ ~last.stopped
    /\ last.elapsed > 180
    /\ last.peers = 3
    /\ last.interval > 300
    /\ last.new_interval = {300}

\* C7: when not stopped and not stale, the decision recommends
\* 5 s * max(1, peers / 50) iff that is more than the current interval, and
\* nothing otherwise.
C7_StepPacing ==
    (last.op = "tick" /\ ~last.stopped
        /\ ~ClaimStale(last.elapsed, last.peers)) =>
        /\ last.new_interval =
              IF ClaimCandidate(last.peers) > last.interval
              THEN {ClaimCandidate(last.peers)}
              ELSE {}
        /\ \A d \in last.new_interval : d > last.interval
        /\ (last.peers = 120 /\ last.interval = 5) => last.new_interval = {10}
        /\ (last.peers \in {0, 40} /\ last.interval = 5) => last.new_interval = {}

C7_Witness ==
    /\ last.op = "tick"
    /\ ~last.stopped
    /\ last.peers = 120
    /\ last.interval = 5
    /\ last.elapsed <= 180
    /\ last.new_interval = {10}

(***************************************************************************)
(* Properties of SignedSpend (specification SpecSpend)                     *)
(***************************************************************************)
HashMatches == spent_tx_hash = TxHash(spend_a.spend.spent_tx)

SignatureValid ==
    spend_a.derived_key_sig =
        Sign(spend_a.spend.unique_pubkey, Spend_to_bytes(spend_a.spend))

Verified == spend_out # <<>> /\ spend_out.op = "verify"

\* C8 as stated: verify succeeds iff the hash matches and the signature is
\* valid, and each failed condition gives its own error whatever the other
\* condition is.
C8_IndependentFailures ==
    Verified =>
        /\ spend_out.result = <<"Ok">> <=> (HashMatches /\ SignatureValid)
        /\ ~HashMatches => spend_out.result = <<"InvalidTransactionHash">>
        /\ ~SignatureValid =>
              spend_out.result =
                  <<"InvalidSpendSignature", spend_a.spend.unique_pubkey>>

\* C8 amended: verify succeeds iff the hash matches and the signature is
\* valid; a hash mismatch gives InvalidTransactionHash whatever the
\* signature is; an invalid signature gives InvalidSpendSignature(key) when
\* the hash matches.
C8_VerifyOutcome ==
    Verified =>
        /\ spend_out.result = <<"Ok">> <=> (HashMatches /\ SignatureValid)
        /\ ~HashMatches => spend_out.result = <<"InvalidTransactionHash">>
        /\ (HashMatches /\ ~SignatureValid) =>
              spend_out.result =
                  <<"InvalidSpendSignature", spend_a.spend.unique_pubkey>>

C8_Witness ==
    /\ Verified
    /\ HashMatches
    /\ ~SignatureValid
    /\ spend_out.result = <<"InvalidSpendSignature", 2>>

Compared == spend_out # <<>> /\ spend_out.op = "compare"

SameKeyOtherTx ==
    /\ spend_a.spend.unique_pubkey = spend_b.spend.unique_pubkey
    /\ spend_a.spend.spent_tx # spend_b.spend.spent_tx

\* C9 as stated: two SignedSpends with the same unique_pubkey and different
\* spent_tx are unequal, have different hash inputs and compare Equal.
C9_OrderedByKeyAlone ==
    (Compared /\ SameKeyOtherTx) =>
        /\ ~spend_out.eq
        /\ ~spend_out.same_hash_input
        /\ spend_out.cmp = "Equal"

\* C9 amended: such SignedSpends are unequal and have different hash inputs;
\* their Spends compare Equal (Spend is ordered by unique_pubkey alone), and
\* the SignedSpends compare Equal iff their signatures are equal, the derived
\* ordering going on to derived_key_sig.
C9_OrderedByKeyThenSignature ==
    (Compared /\ SameKeyOtherTx) =>
        /\ ~spend_out.eq
        /\ ~spend_out.same_hash_input
        /\ spend_out.spend_cmp = "Equal"
        /\ spend_out.cmp = "Equal" <=>
              spend_a.derived_key_sig = spend_b.derived_key_sig

C9_Witness ==
    /\ Compared
    /\ SameKeyOtherTx
    /\ spend_a.derived_key_sig =
          Sign(spend_a.spend.unique_pubkey, Spend_to_bytes(spend_a.spend))
    /\ spend_b.derived_key_sig =
          Sign(spend_b.spend.unique_pubkey, Spend_to_bytes(spend_b.spend))
    /\ spend_out.spend_cmp = "Equal"
    /\ spend_out.cmp # "Equal"

(***************************************************************************)
(* Properties of the record header (specification SpecCodec)               *)
(***************************************************************************)
\* the wire ordinals as the claims state them
ClaimOrdinal(kind) ==
    CASE kind = "ChunkWithPayment" -> 0
      [] kind = "Chunk" -> 1
      [] kind = "Spend" -> 2
      [] kind = "Register" -> 3
      [] kind = "RegisterWithPayment" -> 4

\* C10: the encoded header of every kind is exactly 2 bytes
\* (RecordHeader::SIZE) and carries the kind's wire ordinal, and decoding the
\* encoded header gives the kind back.
C10_HeaderRoundTrip ==
    /\ (codec_out # <<>> /\ codec_out.op = "try_serialize") =>
          /\ codec_out.result[1] = "Ok"
          /\ Len(codec_out.result[2]) = 2
          /\ Len(codec_out.result[2]) = RecordHeader_SIZE
          /\ codec_out.result[2][2] = ClaimOrdinal(kind_in)
          /\ raw = codec_out.result[2]
    /\ (codec_out # <<>> /\ codec_out.op = "try_deserialize"
            /\ codec_out.encoded) =>
          codec_out.result = <<"Ok", kind_in>>

C10_Witness ==
    /\ codec_out # <<>>
    /\ codec_out.op = "try_deserialize"
    /\ codec_out.encoded
    /\ kind_in = "ChunkWithPayment"
    /\ raw = <<145, 0>>
    /\ codec_out.result = <<"Ok", "ChunkWithPayment">>

\* the ordinal a header encoding carries: -1 when the bytes are not an array
\* of one unsigned integer
ClaimHeaderOrdinal(bytes) ==
    IF Len(bytes) >= 2 /\ bytes[1] = 145 /\ bytes[2] < 128 THEN bytes[2]
    ELSE IF Len(bytes) >= 3 /\ bytes[1] = 145 /\ bytes[2] = 204 THEN bytes[3]
    ELSE -1

ClaimHeaderMode(bytes) ==
    IF ClaimHeaderOrdinal(bytes) >= 5 THEN "unknown_kind" ELSE "malformed"

\* the failure mode of a failed operation on a raw value
ClaimFailureMode(op, value) ==
    CASE op = "try_deserialize" -> ClaimHeaderMode(value)
      [] op \in {"from_record", "is_record_of_type_chunk"} ->
            IF Len(value) < 3 THEN "too_short"
            ELSE ClaimHeaderMode(SubSeq(value, 1, 3))
      [] op = "try_deserialize_record" ->
            IF Len(value) <= 2 THEN "too_short" ELSE "payload_mismatch"
      [] OTHER -> "none"

Failed(out) == out # <<>> /\ out.result[1] = "Err"

HeaderOps == {"try_deserialize", "from_record", "is_record_of_type_chunk"}

\* C11 as stated: decoding a header of ordinal >= 5 fails, and two failures
\* of different modes (too short, unknown kind, malformed header, payload
\* mismatch) return different errors.
C11_DistinctFailures ==
    /\ [](  (codec_out # <<>> /\ codec_out.op = "try_deserialize"
                /\ ClaimHeaderOrdinal(raw) >= 5) => Failed(codec_out))
    /\ [][(/\ Failed(codec_out)
           /\ Failed(codec_out')
           /\ ClaimFailureMode(codec_out.op, raw)
                 # ClaimFailureMode(codec_out'.op, raw'))
          => codec_out.result # codec_out'.result]_vars

\* C11 amended: decoding a header of ordinal >= 5 fails with
\* RecordHeaderParsingFailed; every failure of the header operations (too
\* short, unknown kind, malformed) is that one error, and every failure of
\* try_deserialize_record (too short, payload mismatch) is
\* RecordParsingFailed.
C11_TwoErrorValues ==
    /\ (codec_out # <<>> /\ codec_out.op \in HeaderOps
            /\ ClaimHeaderOrdinal(raw) >= 5
            /\ (codec_out.op = "try_deserialize" \/ Len(raw) >= 3)) =>
          codec_out.result = <<"Err", "RecordHeaderParsingFailed">>
    /\ (Failed(codec_out) /\ codec_out.op \in HeaderOps) =>
          codec_out.result = <<"Err", "RecordHeaderParsingFailed">>
    /\ (Failed(codec_out) /\ codec_out.op = "try_deserialize_record") =>
          codec_out.result = <<"Err", "RecordParsingFailed">>

C11_Witness ==
    /\ codec_out # <<>>
    /\ codec_out.op = "try_deserialize"
    /\ raw = <<145, 5>>
    /\ codec_out.result = <<"Err", "RecordHeaderParsingFailed">>

\* C12: from_record fails with the header error on every value of fewer than
\* 3 bytes, a valid 2-byte header included; every encoded record has at
\* least 3 bytes, and from_record of it returns its kind, whatever its third
\* byte is.
C12_HeaderOfRecord ==
    /\ (codec_out # <<>> /\ codec_out.op = "from_record" /\ Len(raw) < 3) =>
          codec_out.result = <<"Err", "RecordHeaderParsingFailed">>
    /\ (codec_out # <<>> /\ codec_out.op = "try_serialize_record") =>
          /\ raw = codec_out.result[2]
          /\ Len(raw) >= 3
    /\ (codec_out # <<>> /\ codec_out.op = "from_record" /\ codec_out.record) =>
          /\ codec_out.result = <<"Ok", kind_in>>
          /\ \A b \in 0..255 :
                from_record([raw EXCEPT ![3] = b]) = codec_out.result

C12_Witness ==
    /\ codec_out # <<>>
    /\ codec_out.op = "from_record"
    /\ codec_out.record
    /\ kind_in = "Spend"
    /\ payload_in = 300
    /\ raw = <<145, 2, 205, 1, 44>>
    /\ codec_out.result = <<"Ok", "Spend">>

\* C13: an encoded record is the 2-byte header of its kind followed by the
\* encoded payload; try_deserialize_record of it gives the payload back; it
\* skips exactly the 2 leading bytes, whatever they are, and fails with the
\* payload error when nothing follows them.
C13_RecordRoundTrip ==
    /\ (codec_out # <<>> /\ codec_out.op = "try_serialize_record") =>
          /\ SubSeq(raw, 1, 2) = <<145, ClaimOrdinal(kind_in)>>
          /\ Len(raw) > 2
    /\ (codec_out # <<>> /\ codec_out.op = "try_deserialize_record"
            /\ codec_out.record) =>
          codec_out.result = <<"Ok", payload_in>>
    /\ (codec_out # <<>> /\ codec_out.op = "try_deserialize_record"
            /\ Len(raw) <= 2) =>
          codec_out.result = <<"Err", "RecordParsingFailed">>
    /\ (codec_out # <<>> /\ codec_out.op = "try_deserialize_record"
            /\ Len(raw) > 2) =>
          \A b \in 0..255 :
              try_deserialize_record(<<b, b>> \o SubSeq(raw, 3, Len(raw)))
                  = codec_out.result

C13_Witness ==
    /\ codec_out # <<>>
    /\ codec_out.op = "try_deserialize_record"
    /\ codec_out.record
    /\ kind_in = "Register"
    /\ payload_in = 1
    /\ raw = <<145, 3, 1>>
    /\ codec_out.result = <<"Ok", 1>>

(***************************************************************************)
(* Further properties of ContinuousBootstrap                               *)
(***************************************************************************)
\* C14: is_ongoing becomes true only with a successful dispatch and false
\* only with completed(); stop, the passing of time and a tick or a peer
\* notification that dispatches nothing leave it as it is; after a tick
\* whose dispatch failed, a next tick with a peer, not stopped, decides to
\* bootstrap again.
C14_OngoingFrame ==
    [][/\ (~is_ongoing /\ is_ongoing') => last'.dispatched
       /\ (is_ongoing /\ ~is_ongoing') => last'.op = "completed"
       /\ last'.dispatched => is_ongoing'
       /\ last'.op \in {"stop", "advance"} => is_ongoing' = is_ongoing
       /\ (last'.op \in {"tick", "notify_new_peer"} /\ ~last'.dispatched) =>
             is_ongoing' = is_ongoing
       /\ (/\ last.op = "tick" /\ last.should /\ ~last.dispatched
           /\ last'.op = "tick" /\ last'.peers >= 1 /\ ~last'.stopped) =>
             last'.should]_vars

C14_Witness ==
    /\ last.op = "tick"
    /\ last.peers >= 1
    /\ last.should
    /\ ~last.dispatched
    /\ ~is_ongoing
    /\ in_flight = 0

C17_SlowPacingSticky ==
    /\ []((last.op = "tick" /\ last.interval >= 300) =>
             \A d \in last.new_interval : d >= 300)
    /\ [][bootstrap_interval >= 300 => bootstrap_interval' >= 300]_vars

C17_Witness ==
    /\ last.op = "tick"
    /\ ~last.stopped
    /\ last.interval = 300
    /\ last.elapsed <= 180
    /\ last.peers = 1
    /\ last.new_interval = {}
    /\ bootstrap_interval = 300
    /\ notify_calls >= 1

(***************************************************************************)
(* Further properties of SignedSpend (specification SpecSpend)             *)
(***************************************************************************)
\* C16: verify tests the hash first: with a wrong hash and an invalid
\* signature the result is InvalidTransactionHash; InvalidSpendSignature is
\* returned only when the hash matches, with the spend's own unique_pubkey.
C16_HashCheckedFirst ==
    Verified =>
        /\ (~HashMatches /\ ~SignatureValid) =>
              spend_out.result = <<"InvalidTransactionHash">>
        /\ spend_out.result[1] = "InvalidSpendSignature" =>
              /\ HashMatches
              /\ ~SignatureValid
              /\ spend_out.result[2] = spend_a.spend.unique_pubkey

C16_Witness ==
    /\ Verified
    /\ ~HashMatches
    /\ ~SignatureValid
    /\ spend_a.derived_key_sig.key # spend_a.spend.unique_pubkey
    /\ spend_out.result = <<"InvalidTransactionHash">>

=============================================================================
